---- MODULE Spec2Model ----
(***************************************************************************)
(* A model of src/frontend/pages/recommendations.tsx: the recommendation   *)
(* session controller (mount effect, handleRefresh, fetchRecommendations,  *)
(* fetchUserData), what the page renders from the session state, and the   *)
(* pure helpers formatMatchScore, getCountdown, estimateTokenCount and the *)
(* row mapper of exportToCSV.                                              *)
(*                                                                         *)
(* Text is a sequence of one-character strings; a character that is not    *)
(* ASCII is written as a name ("rdquo", "hellip").                         *)
(***************************************************************************)
EXTENDS Integers, Sequences, FiniteSets, TLC

VARIABLES
    \* ---- session state of the page (useState, lines 46-53)
    recommendations,   \* the displayed list
    user,              \* the profile, or Null
    loading,
    error,
    isRefreshing,
    selectedHackathon,
    showMetrics,
    \* ---- environment of the page
    userId,            \* localStorage 'userId'
    route,             \* where the router is
    mounted,           \* whether the mount effect has run
    inflight,          \* the fetchRecommendations calls that are suspended at an await
    done,              \* history: the summary of the last call that returned
    \* ---- the helpers, each with its argument and its result
    called,            \* the helpers that have been applied to their argument
    text,              \* estimateTokenCount's argument
    tokenCount,
    hackathon,         \* the record that is displayed and exported
    matchBadge,        \* formatMatchScore(hackathon.match_score), line 470
    embedding,         \* the embedding the row mapper of exportToCSV selected
    csvContent,        \* the text exportToCSV hands to the download
    downloads,         \* how often exportToCSV clicked its download link (line 251)
    deadlineStr,       \* getCountdown's argument
    currentTime,       \* the page's clock (line 53), in milliseconds
    countdown          \* getCountdown's result

ctlVars == <<recommendations, user, loading, error, isRefreshing,
             selectedHackathon, showMetrics, userId, route, mounted, inflight, done>>

tokVars == <<text, tokenCount>>

csvVars == <<hackathon, matchBadge, embedding, csvContent, downloads>>

cdVars == <<deadlineStr, currentTime, countdown>>

fnVars == <<called, tokVars, csvVars, cdVars>>

vars == <<ctlVars, fnVars>>

------------------------------------------------------------------------------
\* Bounds of the model

\* longest recommendation list the service returns
MaxListLen == 1
\* most fetchRecommendations calls suspended at once
MaxInflight == 2
\* longest text given to estimateTokenCount
MaxTextLen == 3
\* longest title, description or requirement of an exported record
MaxCsvLen == 2
\* the scores of the model lie within MaxTenths tenths of 0, on both sides,
\* each tenth with the scores up to ScoreJitter hundred-thousandths around it
MaxTenths == 12
ScoreJitter == 6
\* the clock of the model runs over MaxDays days from its epoch
MaxDays == 3
\* most ticks of the minute timer in one visit of the page
MaxTicks == 1

------------------------------------------------------------------------------
\* Values

Null == "<null>"
\* an absent text (undefined), which is no sequence of characters
Undefined == <<"<undefined>">>
Hackathons == {"h1", "h2"}
Profiles == {"alice", "bob"}

RECURSIVE SeqsUpTo(_, _)
SeqsUpTo(S, n) ==
    IF n = 0 THEN {<<>>}
    ELSE LET shorter == SeqsUpTo(S, n - 1)
         IN  shorter \cup {Append(s, x) : s \in {t \in shorter : Len(t) = n - 1}, x \in S}

\* what GET /recommendations/{id} can return as its JSON array
FetchedLists == SeqsUpTo(Hackathons, MaxListLen)

\* localStorage.getItem('userId'): null when absent; '' is falsy as well
StoredIds == {Null, "", "42"}
Falsy(v) == v = Null \/ v = ""

PageRoute == "/recommendations"
LoginRoute == "/login"

\* the two fallback messages of fetchRecommendations
FetchFallback == "Failed to fetch recommendations"
LoadFallback == "Failed to load recommendations"
\* `detail` of a non-2xx body: absent, empty or a text
Details == {Null, "", "User not found"}
\* the message of what fetch() or response.json() rejects with
RejectMessages == {"", "Failed to fetch"}
ParseMessages == {"Unexpected token < in JSON"}

\* JavaScript's a || b on texts
OrElse(a, b) == IF Falsy(a) THEN b ELSE a

RemoveAt(s, i) == [j \in 1..(Len(s) - 1) |-> IF j < i THEN s[j] ELSE s[j + 1]]

\* the summary kept of a call of fetchRecommendations that returned
Summary(kind, outcome, list0, err0, user0, userRes, recsRes, data, fetches) ==
    [kind |-> kind, outcome |-> outcome, list0 |-> list0, err0 |-> err0,
     user0 |-> user0, userRes |-> userRes, recsRes |-> recsRes, data |-> data,
     fetches |-> fetches]

NoCall == Summary("none", "none", <<>>, "", Null, "none", "none", <<>>, 0)

------------------------------------------------------------------------------
\* Numbers and their text. A score or a metric is an integer count of
\* hundred-thousandths (ScoreOne is 1.0), so that score * 100 is a count of
\* thousandths of a percent and has a third decimal for toFixed(2) to round.

ScoreOne == 100000

Min2(a, b) == IF a <= b THEN a ELSE b
Abs(n) == IF n < 0 THEN -n ELSE n

DigitChar == <<"0", "1", "2", "3", "4", "5", "6", "7", "8", "9">>

DigitValue(c) == CHOOSE d \in 0..9 : DigitChar[d + 1] = c

\* the decimal digits of a natural number
RECURSIVE Digits(_)
Digits(n) == IF n < 10 THEN <<DigitChar[n + 1]>>
             ELSE Append(Digits(n \div 10), DigitChar[(n % 10) + 1])

\* Number.prototype.toFixed(2) of a count m of thousandths: the count of
\* hundredths nearest to it, a tie going to the larger magnitude
ToFixed2(m) == IF m < 0 THEN -((Abs(m) + 5) \div 10) ELSE (m + 5) \div 10

\* parseFloat(x.toFixed(2)).toString() for a count h of hundredths: no trailing
\* zeros, no decimal point without decimals, and -0 printed as 0
NumberToString(h) ==
    LET a == Abs(h)
        int == Digits(a \div 100)
        d1 == DigitChar[((a % 100) \div 10) + 1]
        d2 == DigitChar[(a % 10) + 1]
        body == IF a % 100 = 0 THEN int
                ELSE IF a % 10 = 0 THEN int \o <<".", d1>>
                ELSE int \o <<".", d1, d2>>
    IN  IF h < 0 THEN <<"-">> \o body ELSE body

\* mutant of formatMatchScore: the cap at 100% is missing
formatMatchScoreUncapped(score) == NumberToString(ToFixed2(score)) \o <<"%">>

\* lines 56-63
formatMatchScore(score) ==
    LET cappedScore == Min2(score, ScoreOne)
    IN  NumberToString(ToFixed2(cappedScore)) \o <<"%">>

\* line 225: the Match Score column
ExportMatchScore(score) == NumberToString(ToFixed2(Min2(score, ScoreOne)))

\* lines 226-230: the columns of the evaluation metrics
ExportMetric(x) == NumberToString(ToFixed2(x))

------------------------------------------------------------------------------
\* What the page renders from the session state

\* lines 314-320: the early return that shows only the spinner
SpinnerOnly == loading /\ ~isRefreshing

PageRendered == mounted /\ route = PageRoute /\ ~SpinnerOnly

\* mutant of RefreshButtonEnabled: the button is not disabled during a refresh
RefreshButtonNeverDisabled == PageRendered

\* lines 352-356: the refresh button, disabled while a refresh is in flight
RefreshButtonEnabled == PageRendered /\ ~isRefreshing

\* lines 373-381
ErrorBannerShown == PageRendered /\ error # ""

\* mutant of EmptyStateShown: the loading flag tested the wrong way round
EmptyStateShownWhileLoading ==
    PageRendered /\ Len(recommendations) = 0 /\ loading /\ error = ""

\* lines 579-593
EmptyStateShown == PageRendered /\ Len(recommendations) = 0 /\ ~loading /\ error = ""

------------------------------------------------------------------------------
\* The controller

NoArray == [kind |-> "undefined", items |-> <<>>]

\* a record as the service may send it
DefaultHackathon ==
    [title |-> <<"a">>,
     description |-> <<"a", " ", "a">>,
     originalDescription |-> Undefined,
     requirements |-> [present |-> TRUE, items |-> << <<"a">> >>],
     match_score |-> 40000,
     evaluation_metrics |-> [precision |-> 50000, recall |-> 25000, f1_score |-> 33333,
                             accuracy |-> 100000, cosine_similarity |-> 45670],
     embedding |-> NoArray, description_embedding |-> NoArray, embeddings |-> NoArray,
     vector |-> NoArray, text_embedding |-> NoArray]

CsvIdle ==
    /\ hackathon = DefaultHackathon
    /\ matchBadge = <<>>
    /\ embedding = <<>>
    /\ csvContent = <<>>
    /\ downloads = 0

\* the helpers are not part of the controller's run
TokIdle == text = <<>> /\ tokenCount = 0
CdIdle == deadlineStr = <<>> /\ currentTime = 0 /\ countdown = <<>>

Init ==
    /\ called = {}
    /\ TokIdle
    /\ CsvIdle
    /\ CdIdle
    /\ recommendations = <<>>
    /\ user = Null
    /\ loading = TRUE
    /\ error = ""
    /\ isRefreshing = FALSE
    /\ selectedHackathon = Null
    /\ showMetrics = FALSE
    /\ userId \in StoredIds
    /\ route = PageRoute
    /\ mounted = FALSE
    /\ inflight = <<>>
    /\ done = NoCall

\* mutant of FetchRecommendationsStart: the check of the stored userId is missing
FetchRecommendationsStartNoIdCheck(kind) ==
    /\ inflight' = Append(inflight,
            [kind |-> kind, pc |-> "userFetch", uid |-> userId,
             list0 |-> recommendations, err0 |-> error, user0 |-> user,
             userRes |-> "none", fetches |-> 1])
    /\ UNCHANGED <<route, done>>

\* lines 267-276: fetchRecommendations up to its first await. Without a stored
\* userId it redirects and returns before the try block; otherwise it calls
\* fetchUserData, which issues GET /users/{id} and suspends.
FetchRecommendationsStart(kind) ==
    IF Falsy(userId)
    THEN /\ route' = LoginRoute
         /\ done' = Summary(kind, "redirect", recommendations, error, user,
                            "none", "none", <<>>, 0)
         /\ UNCHANGED inflight
    ELSE /\ inflight' = Append(inflight,
                [kind |-> kind, pc |-> "userFetch", uid |-> userId,
                 list0 |-> recommendations, err0 |-> error, user0 |-> user,
                 userRes |-> "none", fetches |-> 1])
         /\ UNCHANGED <<route, done>>

\* lines 293-300: the effect run once on mount
MountEffect ==
    /\ ~mounted
    /\ mounted' = TRUE
    /\ IF Falsy(userId)
       THEN /\ route' = LoginRoute
            /\ done' = Summary("load", "redirect", recommendations, error, user,
                               "none", "none", <<>>, 0)
            /\ UNCHANGED inflight
       ELSE FetchRecommendationsStart("load")
    /\ UNCHANGED <<recommendations, user, loading, error, isRefreshing,
                   selectedHackathon, showMetrics, userId>>

\* lines 302-307, reached through the button of lines 352-356. When
\* fetchRecommendations returns at once (the redirect), the promise is already
\* resolved and its finally callback resets isRefreshing in the same task.
HandleRefresh ==
    /\ RefreshButtonEnabled
    /\ Len(inflight) < MaxInflight
    /\ FetchRecommendationsStart("refresh")
    /\ isRefreshing' = ~Falsy(userId)
    /\ UNCHANGED <<recommendations, user, loading, error,
                   selectedHackathon, showMetrics, userId, mounted>>

\* mutant of Finish: setLoading(false) and setIsRefreshing(false) sit at the end
\* of the try blocks, not in finally
FinishWithoutFinally(i, newList, newError, recsRes, data) ==
    LET c == inflight[i] IN
    /\ recommendations' = newList
    /\ error' = newError
    /\ loading' = IF recsRes = "ok" THEN FALSE ELSE loading
    /\ isRefreshing' = IF c.kind = "refresh" /\ recsRes = "ok" THEN FALSE ELSE isRefreshing
    /\ inflight' = RemoveAt(inflight, i)
    /\ done' = Summary(c.kind, "returned", c.list0, c.err0, c.user0,
                       c.userRes, recsRes, data, c.fetches)
    /\ UNCHANGED <<user, selectedHackathon, showMetrics, userId, route, mounted>>

\* lines 285-291 and 304-306: the call i returns with the list and the error
\* message it leaves; finally setLoading(false), and for a refresh the finally
\* callback of handleRefresh.
Finish(i, newList, newError, recsRes, data) ==
    LET c == inflight[i] IN
    /\ recommendations' = newList
    /\ error' = newError
    /\ loading' = FALSE
    /\ isRefreshing' = IF c.kind = "refresh" THEN FALSE ELSE isRefreshing
    /\ inflight' = RemoveAt(inflight, i)
    /\ done' = Summary(c.kind, "returned", c.list0, c.err0, c.user0,
                       c.userRes, recsRes, data, c.fetches)
    /\ UNCHANGED <<user, selectedHackathon, showMetrics, userId, route, mounted>>

\* fetchUserData is over (lines 255-265): line 276 issues GET /recommendations/{id}
ToRecsFetch(i, userRes) ==
    inflight' = [inflight EXCEPT ![i] =
                    [@ EXCEPT !.pc = "recsFetch", !.userRes = userRes,
                              !.fetches = @ + 1]]

\* lines 257-264: GET /users/{id} settles. A response that is not ok is ignored,
\* a rejection is caught and logged.
UserResponse(i, outcome) ==
    /\ inflight[i].pc = "userFetch"
    /\ IF outcome = "ok"
       THEN inflight' = [inflight EXCEPT ![i] = [@ EXCEPT !.pc = "userJson"]]
       ELSE ToRecsFetch(i, "fail")
    /\ UNCHANGED <<recommendations, user, loading, error, isRefreshing,
                   selectedHackathon, showMetrics, userId, route, mounted, done>>

\* lines 259-264: response.json() of the profile settles
UserJson(i, body) ==
    /\ inflight[i].pc = "userJson"
    /\ IF body \in Profiles
       THEN user' = body /\ ToRecsFetch(i, "ok")
       ELSE UNCHANGED user /\ ToRecsFetch(i, "fail")
    /\ UNCHANGED <<recommendations, loading, error, isRefreshing,
                   selectedHackathon, showMetrics, userId, route, mounted, done>>

\* mutant of RecsResponse: the catch block sets err.message without the fallback
RecsResponseNoFallback(i, outcome) ==
    /\ inflight[i].pc = "recsFetch"
    /\ IF outcome.kind \in {"ok", "notok"}
       THEN /\ inflight' = [inflight EXCEPT ![i] =
                    [@ EXCEPT !.pc = IF outcome.kind = "ok" THEN "recsJson" ELSE "errJson"]]
            /\ UNCHANGED <<recommendations, user, loading, error, isRefreshing,
                           selectedHackathon, showMetrics, userId, route, mounted, done>>
       ELSE Finish(i, recommendations, outcome.message, "fail", <<>>)

\* lines 276-278 and 285-290: GET /recommendations/{id} settles
RecsResponse(i, outcome) ==
    /\ inflight[i].pc = "recsFetch"
    /\ IF outcome.kind \in {"ok", "notok"}
       THEN /\ inflight' = [inflight EXCEPT ![i] =
                    [@ EXCEPT !.pc = IF outcome.kind = "ok" THEN "recsJson" ELSE "errJson"]]
            /\ UNCHANGED <<recommendations, user, loading, error, isRefreshing,
                           selectedHackathon, showMetrics, userId, route, mounted, done>>
       ELSE Finish(i, recommendations, OrElse(outcome.message, LoadFallback), "fail", <<>>)

\* mutant of ErrJson: the catch block also empties the list
ErrJsonClearsList(i, body) ==
    /\ inflight[i].pc = "errJson"
    /\ LET message == IF body.parsed THEN OrElse(body.detail, FetchFallback)
                      ELSE body.message
       IN  Finish(i, <<>>, OrElse(message, LoadFallback), "fail", <<>>)

\* lines 279-280 and 285-290: the body of the response that is not ok settles
ErrJson(i, body) ==
    /\ inflight[i].pc = "errJson"
    /\ LET message == IF body.parsed THEN OrElse(body.detail, FetchFallback)
                      ELSE body.message
       IN  Finish(i, recommendations, OrElse(message, LoadFallback), "fail", <<>>)

\* lines 283-290: the body of the ok response settles
RecsJson(i, body) ==
    /\ inflight[i].pc = "recsJson"
    /\ IF body.parsed
       THEN Finish(i, body.data, error, "ok", body.data)
       ELSE Finish(i, recommendations, OrElse(body.message, LoadFallback), "fail", <<>>)

\* localStorage is shared with the other pages: the stored userId changes
\* (a logout or a login elsewhere)
StorageChange(v) ==
    /\ mounted
    /\ route = PageRoute
    /\ v # userId
    /\ userId' = v
    /\ UNCHANGED <<recommendations, user, loading, error, isRefreshing,
                   selectedHackathon, showMetrics, route, mounted, inflight, done>>

\* lines 551-555: the View Metrics button of a card
ViewMetrics(n) ==
    /\ PageRendered
    /\ n \in 1..Len(recommendations)
    /\ selectedHackathon' = recommendations[n]
    /\ showMetrics' = TRUE
    /\ UNCHANGED <<recommendations, user, loading, error, isRefreshing,
                   userId, route, mounted, inflight, done>>

\* lines 597-603: onClose of the metrics dialog
CloseMetrics ==
    /\ PageRendered
    /\ selectedHackathon # Null
    /\ showMetrics' = FALSE
    /\ selectedHackathon' = Null
    /\ UNCHANGED <<recommendations, user, loading, error, isRefreshing,
                   userId, route, mounted, inflight, done>>

\* line 138: the interval of the timer, in milliseconds
TickMs == 60000

\* mutant of TimerTick: the tick reloads the recommendations as well
TimerTickRefetches ==
    /\ mounted
    /\ route = PageRoute
    /\ currentTime < MaxTicks * TickMs
    /\ currentTime' = currentTime + TickMs
    /\ inflight' = Append(inflight,
            [kind |-> "load", pc |-> "userFetch", uid |-> userId,
             list0 |-> recommendations, err0 |-> error, user0 |-> user,
             userRes |-> "none", fetches |-> 1])
    /\ UNCHANGED <<recommendations, user, loading, error, isRefreshing,
                   selectedHackathon, showMetrics, userId, route, mounted, done>>
    /\ UNCHANGED <<called, tokVars, csvVars, deadlineStr, countdown>>

\* lines 135-141: the callback of the interval set up on mount and cleared on
\* unmount. It calls setCurrentTime(new Date()) and nothing else; the clock it
\* reads is one interval later than at the tick before.
TimerTick ==
    /\ mounted
    /\ route = PageRoute
    /\ currentTime < MaxTicks * TickMs
    /\ currentTime' = currentTime + TickMs
    /\ UNCHANGED ctlVars
    /\ UNCHANGED <<called, tokVars, csvVars, deadlineStr, countdown>>

\* how a fetch settles, and how response.json() settles
RecsOutcomes == [kind : {"ok", "notok"}, message : {""}]
                    \cup [kind : {"reject"}, message : RejectMessages]
ErrBodies == [parsed : {TRUE}, detail : Details, message : {""}]
                \cup [parsed : {FALSE}, detail : {Null}, message : ParseMessages]
ListBodies == [parsed : {TRUE}, data : FetchedLists, message : {""}]
                \cup [parsed : {FALSE}, data : {<<>>}, message : ParseMessages]

Next ==
    \/ MountEffect /\ UNCHANGED fnVars
    \/ HandleRefresh /\ UNCHANGED fnVars
    \/ \E i \in 1..Len(inflight) : \E o \in {"ok", "notok", "reject"} :
            UserResponse(i, o) /\ UNCHANGED fnVars
    \/ \E i \in 1..Len(inflight) : \E b \in Profiles \cup {"reject"} :
            UserJson(i, b) /\ UNCHANGED fnVars
    \/ \E i \in 1..Len(inflight) : \E o \in RecsOutcomes :
            RecsResponse(i, o) /\ UNCHANGED fnVars
    \/ \E i \in 1..Len(inflight) : \E b \in ErrBodies : ErrJson(i, b) /\ UNCHANGED fnVars
    \/ \E i \in 1..Len(inflight) : \E b \in ListBodies : RecsJson(i, b) /\ UNCHANGED fnVars
    \/ \E v \in StoredIds : StorageChange(v) /\ UNCHANGED fnVars
    \/ \E n \in 1..Len(recommendations) : ViewMetrics(n) /\ UNCHANGED fnVars
    \/ CloseMetrics /\ UNCHANGED fnVars
    \/ TimerTick

Spec == Init /\ [][Next]_vars

\* a fetch or a response.json() in flight settles
Settle ==
    \/ \E i \in 1..Len(inflight) : \E o \in {"ok", "notok", "reject"} : UserResponse(i, o)
    \/ \E i \in 1..Len(inflight) : \E b \in Profiles \cup {"reject"} : UserJson(i, b)
    \/ \E i \in 1..Len(inflight) : \E o \in RecsOutcomes : RecsResponse(i, o)
    \/ \E i \in 1..Len(inflight) : \E b \in ErrBodies : ErrJson(i, b)
    \/ \E i \in 1..Len(inflight) : \E b \in ListBodies : RecsJson(i, b)

\* the page on a network where every request issued eventually resolves or
\* rejects; the continuations of lines 257-290 then run
SpecLive == Spec /\ WF_vars(Settle /\ UNCHANGED fnVars)

\* the controller is not part of a helper's run
CtlIdle ==
    /\ recommendations = <<>> /\ user = Null /\ loading = TRUE /\ error = ""
    /\ isRefreshing = FALSE /\ selectedHackathon = Null /\ showMetrics = FALSE
    /\ userId = Null /\ route = PageRoute /\ mounted = FALSE
    /\ inflight = <<>> /\ done = NoCall

------------------------------------------------------------------------------
\* estimateTokenCount (lines 143-148)

\* what \s matches, among the characters of the model
WhiteSpace == {" ", "\t", "\n", "\r"}

\* the character class of line 147: [\s,.;:!?()\[\]{}""'']
SplitChars ==
    WhiteSpace \cup {",", ".", ";", ":", "!", "?", "(", ")", "[", "]", "{", "}", "\"", "'"}

\* String.prototype.split on runs of the characters of sep: the segments between
\* the runs, an empty one where the text starts or ends with a run
RECURSIVE SplitFrom(_, _, _, _, _, _)
SplitFrom(s, sep, i, cur, acc, inRun) ==
    IF i > Len(s) THEN Append(acc, cur)
    ELSE IF s[i] \in sep
         THEN IF inRun THEN SplitFrom(s, sep, i + 1, <<>>, acc, TRUE)
              ELSE SplitFrom(s, sep, i + 1, <<>>, Append(acc, cur), TRUE)
         ELSE SplitFrom(s, sep, i + 1, Append(cur, s[i]), acc, FALSE)

SplitRuns(s, sep) == SplitFrom(s, sep, 1, <<>>, <<>>, FALSE)

\* .filter(Boolean) on texts
NonEmpty(seg) == seg # <<>>

estimateTokenCount(t) ==
    IF t = Undefined \/ t = <<>> THEN 0
    ELSE Len(SelectSeq(SplitRuns(t, SplitChars), NonEmpty))

\* the characters the texts of the model are made of
TokenAlphabet == {"a", " ", ",", "'", "rdquo"}

Texts == SeqsUpTo(TokenAlphabet, MaxTextLen)

InitTokens ==
    /\ CtlIdle
    /\ CsvIdle /\ CdIdle
    /\ called = {}
    /\ text \in Texts \cup {Undefined}
    /\ tokenCount = 0

EstimateTokenCount ==
    /\ "estimateTokenCount" \notin called
    /\ called' = called \cup {"estimateTokenCount"}
    /\ tokenCount' = estimateTokenCount(text)
    /\ UNCHANGED <<text, csvVars, cdVars, ctlVars>>

NextTokens == EstimateTokenCount

SpecTokens == InitTokens /\ [][NextTokens]_vars

------------------------------------------------------------------------------
\* exportToCSV (lines 150-253)

\* lines 155-168
HeaderNames ==
  << <<"T", "i", "t", "l", "e">>,
     <<"D", "e", "s", "c", "r", "i", "p", "t", "i", "o", "n">>,
     <<"D", "e", "s", "c", "r", "i", "p", "t", "i", "o", "n", " ", "T", "r", "u", "n", "c", "a", "t", "e", "d">>,
     <<"o", "r", "i", "g", "i", "n", "a", "l", "_", "t", "o", "k", "e", "n", "_", "c", "o", "u", "n", "t">>,
     <<"t", "r", "u", "n", "c", "a", "t", "e", "d", "_", "t", "o", "k", "e", "n", "_", "c", "o", "u", "n", "t">>,
     <<"E", "m", "b", "e", "d", "d", "i", "n", "g", " ", "A", "v", "a", "i", "l", "a", "b", "l", "e">>,
     <<"M", "a", "t", "c", "h", " ", "S", "c", "o", "r", "e">>,
     <<"P", "r", "e", "c", "i", "s", "i", "o", "n">>,
     <<"R", "e", "c", "a", "l", "l">>,
     <<"F", "1", " ", "S", "c", "o", "r", "e">>,
     <<"A", "c", "c", "u", "r", "a", "c", "y">>,
     <<"C", "o", "s", "i", "n", "e", " ", "S", "i", "m", "i", "l", "a", "r", "i", "t", "y">>,
     <<"R", "e", "q", "u", "i", "r", "e", "m", "e", "n", "t", "s">> >>

\* Array.prototype.join
RECURSIVE Join(_, _)
Join(parts, sep) ==
    IF parts = <<>> THEN <<>>
    ELSE IF Len(parts) = 1 THEN parts[1]
    ELSE parts[1] \o sep \o Join(Tail(parts), sep)

\* String.prototype.replace(/"/g, '""')
RECURSIVE DoubleQuotes(_)
DoubleQuotes(t) ==
    IF t = <<>> THEN <<>>
    ELSE (IF Head(t) = "\"" THEN <<"\"", "\"">> ELSE <<Head(t)>>) \o DoubleQuotes(Tail(t))

EndsWith(t, suffix) ==
    /\ Len(t) >= Len(suffix)
    /\ SubSeq(t, Len(t) - Len(suffix) + 1, Len(t)) = suffix

\* a text is truthy when it is present and not empty
TruthyText(t) == t # Undefined /\ t # <<>>

TrueText == <<"t", "r", "u", "e">>
FalseText == <<"f", "a", "l", "s", "e">>

\* line 183: the length from which a description counts as truncated
TruncatedLength == 200

\* lines 179-184
isDescriptionTruncated(h) ==
    IF /\ TruthyText(h.description)
       /\ \/ EndsWith(h.description, <<".", ".", ".">>)
          \/ EndsWith(h.description, <<"hellip">>)
          \/ Len(h.description) >= TruncatedLength
    THEN TrueText ELSE FalseText

\* An embedding field holds undefined, null, a value that is no array (a text)
\* or an array of numbers.
TruthyValue(v) == v.kind \in {"array", "text"}
IsArray(v) == v.kind = "array"

\* x && Array.isArray(x) && x.length > 0
IsNonEmptyArray(v) == TruthyValue(v) /\ IsArray(v) /\ Len(v.items) > 0

\* mutant of SelectEmbedding: vector is probed before embeddings
SelectEmbeddingVectorFirst(h) ==
    IF IsNonEmptyArray(h.embedding) THEN h.embedding.items
    ELSE IF IsNonEmptyArray(h.description_embedding) THEN h.description_embedding.items
    ELSE IF IsNonEmptyArray(h.vector) THEN h.vector.items
    ELSE IF IsNonEmptyArray(h.embeddings) THEN h.embeddings.items
    ELSE IF IsNonEmptyArray(h.text_embedding) THEN h.text_embedding.items
    ELSE <<>>

\* the if chain of lines 195-208
SelectEmbedding(h) ==
    IF IsNonEmptyArray(h.embedding) THEN h.embedding.items
    ELSE IF IsNonEmptyArray(h.description_embedding) THEN h.description_embedding.items
    ELSE IF IsNonEmptyArray(h.embeddings) THEN h.embeddings.items
    ELSE IF IsNonEmptyArray(h.vector) THEN h.vector.items
    ELSE IF IsNonEmptyArray(h.text_embedding) THEN h.text_embedding.items
    ELSE <<>>

\* line 211
HasEmbedding(e) == IF Len(e) > 0 THEN TrueText ELSE FalseText

\* lines 172-233: the row of one record
CsvRow(h) ==
    LET safeDescription ==
            IF TruthyText(h.description)
            THEN <<"\"">> \o DoubleQuotes(h.description) \o <<"\"">>
            ELSE <<"\"", "\"">>
        truncated == isDescriptionTruncated(h)
        displayedTokenCount == estimateTokenCount(h.description)
        originalTokenCount ==
            IF truncated = TrueText /\ TruthyText(h.originalDescription)
            THEN estimateTokenCount(h.originalDescription)
            ELSE displayedTokenCount
        requirements ==
            IF h.requirements.present
            THEN <<"\"">> \o Join(h.requirements.items, <<";", " ">>) \o <<"\"">>
            ELSE <<"\"", "\"">>
    IN  Join(<< <<"\"">> \o DoubleQuotes(h.title) \o <<"\"">>,
                safeDescription,
                truncated,
                Digits(originalTokenCount),
                Digits(displayedTokenCount),
                HasEmbedding(SelectEmbedding(h)),
                ExportMatchScore(h.match_score),
                ExportMetric(h.evaluation_metrics.precision),
                ExportMetric(h.evaluation_metrics.recall),
                ExportMetric(h.evaluation_metrics.f1_score),
                ExportMetric(h.evaluation_metrics.accuracy),
                ExportMetric(h.evaluation_metrics.cosine_similarity),
                requirements >>, <<",">>)

\* lines 151-236: the text of the file for a list of records; nothing for an
\* empty list
CsvContent(list) ==
    IF Len(list) = 0 THEN <<>>
    ELSE Join(HeaderNames, <<",">>) \o <<"\n">>
            \o Join([n \in 1..Len(list) |-> CsvRow(list[n])], <<"\n">>)

\* line 470: the match badge of the card
FormatMatchScore ==
    /\ "formatMatchScore" \notin called
    /\ called' = called \cup {"formatMatchScore"}
    /\ matchBadge' = formatMatchScore(hackathon.match_score)
    /\ UNCHANGED <<hackathon, embedding, csvContent, downloads, tokVars, cdVars, ctlVars>>

\* lines 151-253 with the one record displayed
ExportToCSV ==
    /\ "exportToCSV" \notin called
    /\ called' = called \cup {"exportToCSV"}
    /\ embedding' = SelectEmbedding(hackathon)
    /\ csvContent' = CsvContent(<<hackathon>>)
    /\ downloads' = downloads + 1
    /\ UNCHANGED <<hackathon, matchBadge, tokVars, cdVars, ctlVars>>

NextCsv == FormatMatchScore \/ ExportToCSV

\* ---- exportToCSV with the list of the session

\* the record behind a recommendation of the session
RecordOf(h) ==
    IF h = "h1" THEN DefaultHackathon
    ELSE [DefaultHackathon EXCEPT !.title = <<"a", "a">>,
                                  !.vector = [kind |-> "array", items |-> <<1>>]]

RecordsOf(list) == [n \in 1..Len(list) |-> RecordOf(list[n])]

\* mutant of ExportToCSVCall: the early return of line 152 is missing
ExportToCSVCallNoEarlyReturn ==
    /\ "exportToCSV" \notin called
    /\ called' = called \cup {"exportToCSV"}
    /\ csvContent' = Join(HeaderNames, <<",">>) \o <<"\n">>
                        \o Join([n \in 1..Len(recommendations) |->
                                    CsvRow(RecordOf(recommendations[n]))], <<"\n">>)
    /\ downloads' = downloads + 1
    /\ embedding' = IF Len(recommendations) = 0 THEN embedding
                    ELSE SelectEmbedding(RecordOf(recommendations[Len(recommendations)]))
    /\ UNCHANGED <<hackathon, matchBadge, tokVars, cdVars, ctlVars>>

\* lines 151-253, called on the page as it is: line 152 returns at once when the
\* list is empty; otherwise the rows are built, handed to a Blob and the hidden
\* link is clicked. No setter of the session state is called.
ExportToCSVCall ==
    /\ "exportToCSV" \notin called
    /\ called' = called \cup {"exportToCSV"}
    /\ IF Len(recommendations) = 0
       THEN UNCHANGED <<csvContent, downloads, embedding>>
       ELSE /\ csvContent' = CsvContent(RecordsOf(recommendations))
            /\ downloads' = downloads + 1
            /\ embedding' = SelectEmbedding(RecordOf(recommendations[Len(recommendations)]))
    /\ UNCHANGED <<hackathon, matchBadge, tokVars, cdVars, ctlVars>>

\* the error messages fetchRecommendations can leave
ErrorMessages ==
    {""} \cup {OrElse(m, LoadFallback) : m \in RejectMessages \cup ParseMessages}
         \cup {OrElse(OrElse(d, FetchFallback), LoadFallback) : d \in Details}

\* the page after a load or a refresh has returned: nothing is in flight, the
\* list, the profile and the error message are what the cycles left, and the
\* metrics dialog is closed or open on a record of the list
InitExport ==
    /\ TokIdle /\ CdIdle /\ CsvIdle
    /\ called = {}
    /\ recommendations \in FetchedLists
    /\ user \in Profiles \cup {Null}
    /\ loading = FALSE
    /\ error \in ErrorMessages
    /\ isRefreshing = FALSE
    /\ \/ selectedHackathon = Null /\ showMetrics = FALSE
       \/ /\ selectedHackathon \in {recommendations[n] : n \in 1..Len(recommendations)}
          /\ showMetrics = TRUE
    /\ userId = "42"
    /\ route = PageRoute
    /\ mounted = TRUE
    /\ inflight = <<>>
    /\ done = NoCall

NextExport == ExportToCSVCall

SpecExport == InitExport /\ [][NextExport]_vars

\* ---- the records exported

CsvAlphabet == {"a", "\"", ",", "\n"}
CsvTexts == SeqsUpTo(CsvAlphabet, MaxCsvLen)

\* requirements: absent, or a list of one or two texts
RequirementLists ==
    {[present |-> FALSE, items |-> <<>>], [present |-> TRUE, items |-> <<>>]}
        \cup {[present |-> TRUE, items |-> <<t>>] : t \in CsvTexts}
        \cup {[present |-> TRUE, items |-> <<t, <<"a">> >>] : t \in CsvTexts}

\* records that differ in one text field
TextRecords ==
    {[DefaultHackathon EXCEPT !.title = t] : t \in CsvTexts}
        \cup {[DefaultHackathon EXCEPT !.description = t] : t \in CsvTexts \cup {Undefined}}
        \cup {[DefaultHackathon EXCEPT !.requirements = r] : r \in RequirementLists}

InitCsvText ==
    /\ CtlIdle /\ TokIdle /\ CdIdle
    /\ called = {}
    /\ hackathon \in TextRecords
    /\ matchBadge = <<>> /\ embedding = <<>> /\ csvContent = <<>> /\ downloads = 0

SpecCsvText == InitCsvText /\ [][NextCsv]_vars

\* what an embedding field may hold
EmbeddingValues ==
    {[kind |-> "undefined", items |-> <<>>], [kind |-> "null", items |-> <<>>],
     [kind |-> "text", items |-> <<1>>], [kind |-> "array", items |-> <<>>],
     [kind |-> "array", items |-> <<1>>], [kind |-> "array", items |-> <<2>>]}

EmbeddingRecords ==
    {[DefaultHackathon EXCEPT !.embedding = e1, !.description_embedding = e2,
                              !.embeddings = e3, !.vector = e4, !.text_embedding = e5] :
        e1 \in EmbeddingValues, e2 \in EmbeddingValues, e3 \in EmbeddingValues,
        e4 \in EmbeddingValues, e5 \in EmbeddingValues}

InitEmbedding ==
    /\ CtlIdle /\ TokIdle /\ CdIdle
    /\ called = {}
    /\ hackathon \in EmbeddingRecords
    /\ matchBadge = <<>> /\ embedding = <<>> /\ csvContent = <<>> /\ downloads = 0

SpecEmbedding == InitEmbedding /\ [][NextCsv]_vars

Scores ==
    {a * (ScoreOne \div 10) + b : a \in (-MaxTenths)..MaxTenths,
                                  b \in (-ScoreJitter)..ScoreJitter}
        \cup {5000, 45670}

InitScore ==
    /\ CtlIdle /\ TokIdle /\ CdIdle
    /\ called = {}
    /\ hackathon \in {[DefaultHackathon EXCEPT !.match_score = k] : k \in Scores}
    /\ matchBadge = <<>> /\ embedding = <<>> /\ csvContent = <<>> /\ downloads = 0

SpecScore == InitScore /\ [][NextCsv]_vars

------------------------------------------------------------------------------
\* getCountdown (lines 65-110)

\* lines 96-98: 1000 * 60, 1000 * 60 * 60 and 1000 * 60 * 60 * 24
MinuteMs == 60000
HourMs == 3600000
DayMs == 86400000

\* The clock counts milliseconds from the epoch of the model, the start of
\* EpochYear (UTC), which keeps every instant of the model a 32-bit integer.
EpochYear == 2025

DigitSet == {DigitChar[n] : n \in 1..10}
IsDigits(t) == \A n \in 1..Len(t) : t[n] \in DigitSet

RECURSIVE NumberOf(_)
NumberOf(t) == IF t = <<>> THEN 0
               ELSE NumberOf(SubSeq(t, 1, Len(t) - 1)) * 10 + DigitValue(t[Len(t)])

\* the days of the year before each month of EpochYear
MonthStart == <<0, 31, 59, 90, 120, 151, 181, 212, 243, 273, 304, 334>>
MonthDays == <<31, 28, 31, 30, 31, 30, 31, 31, 30, 31, 30, 31>>

NotADate == [valid |-> FALSE, time |-> 0]

\* new Date(text) for the date-time string format of ECMAScript: YYYY-MM-DD,
\* which is UTC, alone or followed by THH:mmZ. Any other text of the model
\* gives an invalid date.
DateParse(t) ==
    LET dateOk == /\ Len(t) \in {10, 17}
                  /\ t[5] = "-" /\ t[8] = "-"
                  /\ IsDigits(SubSeq(t, 1, 4)) /\ IsDigits(SubSeq(t, 6, 7))
                  /\ IsDigits(SubSeq(t, 9, 10))
        timeOk == Len(t) = 10
                    \/ /\ t[11] = "T" /\ t[14] = ":" /\ t[17] = "Z"
                       /\ IsDigits(SubSeq(t, 12, 13)) /\ IsDigits(SubSeq(t, 15, 16))
        year == NumberOf(SubSeq(t, 1, 4))
        month == NumberOf(SubSeq(t, 6, 7))
        day == NumberOf(SubSeq(t, 9, 10))
        hour == IF Len(t) = 10 THEN 0 ELSE NumberOf(SubSeq(t, 12, 13))
        minute == IF Len(t) = 10 THEN 0 ELSE NumberOf(SubSeq(t, 15, 16))
    IN  IF /\ dateOk /\ timeOk
           /\ month \in 1..12 /\ day \in 1..MonthDays[month]
           /\ hour \in 0..23 /\ minute \in 0..59
        THEN [valid |-> TRUE,
              time |-> ((year - EpochYear) * 365 + MonthStart[month] + day - 1) * DayMs
                          + hour * HourMs + minute * MinuteMs]
        ELSE NotADate

\* String.prototype.includes for one character
Includes(t, c) == \E n \in 1..Len(t) : t[n] = c

\* String.prototype.split on one character
RECURSIVE SplitOnFrom(_, _, _, _, _)
SplitOnFrom(t, c, i, cur, acc) ==
    IF i > Len(t) THEN Append(acc, cur)
    ELSE IF t[i] = c THEN SplitOnFrom(t, c, i + 1, <<>>, Append(acc, cur))
    ELSE SplitOnFrom(t, c, i + 1, Append(cur, t[i]), acc)

SplitOn(t, c) == SplitOnFrom(t, c, 1, <<>>, <<>>)

NoDeadlineText == <<"N", "o", " ", "d", "e", "a", "d", "l", "i", "n", "e", " ", "s", "p", "e", "c", "i", "f", "i", "e", "d">>
DeadlinePassedText == <<"D", "e", "a", "d", "l", "i", "n", "e", " ", "p", "a", "s", "s", "e", "d">>

\* lines 100-106: `${n} ${unit}${n !== 1 ? 's' : ''} left`
Remaining(n, unit) ==
    Digits(n) \o <<" ">> \o unit \o (IF n # 1 THEN <<"s">> ELSE <<>>)
        \o <<" ", "l", "e", "f", "t">>

\* mutant of getCountdown: a deadline that is now has not passed
getCountdownNowNotPassed(str, now) ==
    IF ~TruthyText(str) THEN NoDeadlineText
    ELSE LET deadlineDate ==
                 IF Includes(str, "T") \/ Includes(str, "-") THEN DateParse(str)
                 ELSE IF Includes(str, "/")
                      THEN LET parts == SplitOn(str, "/") IN
                           IF Len(parts) = 3
                           THEN DateParse(parts[3] \o <<"-">> \o parts[1] \o <<"-">> \o parts[2])
                           ELSE NotADate
                      ELSE NotADate
             diff == deadlineDate.time - now
             days == diff \div DayMs
             hours == (diff % DayMs) \div HourMs
             minutes == (diff % HourMs) \div MinuteMs
         IN  IF ~deadlineDate.valid THEN str
             ELSE IF diff < 0 THEN DeadlinePassedText
             ELSE IF days > 0 THEN Remaining(days, <<"d", "a", "y">>)
             ELSE IF hours > 0 THEN Remaining(hours, <<"h", "o", "u", "r">>)
             ELSE Remaining(minutes, <<"m", "i", "n", "u", "t", "e">>)

\* lines 66-110. deadlineDate stays null when the text has none of T, - and /,
\* or has / without being three segments: null and an invalid date are both
\* answered with the text itself.
getCountdown(str, now) ==
    IF ~TruthyText(str) THEN NoDeadlineText
    ELSE LET deadlineDate ==
                 IF Includes(str, "T") \/ Includes(str, "-") THEN DateParse(str)
                 ELSE IF Includes(str, "/")
                      THEN LET parts == SplitOn(str, "/") IN
                           IF Len(parts) = 3
                           THEN DateParse(parts[3] \o <<"-">> \o parts[1] \o <<"-">> \o parts[2])
                           ELSE NotADate
                      ELSE NotADate
             diff == deadlineDate.time - now
             days == diff \div DayMs
             hours == (diff % DayMs) \div HourMs
             minutes == (diff % HourMs) \div MinuteMs
         IN  IF ~deadlineDate.valid THEN str
             ELSE IF diff <= 0 THEN DeadlinePassedText
             ELSE IF days > 0 THEN Remaining(days, <<"d", "a", "y">>)
             ELSE IF hours > 0 THEN Remaining(hours, <<"h", "o", "u", "r">>)
             ELSE Remaining(minutes, <<"m", "i", "n", "u", "t", "e">>)

\* The deadline texts of the model, each with what it stands for: whether the
\* code's two formats (a text with T or -, or MM/DD/YYYY) make a valid date of
\* it, and the instant of that date.
DeadlineCases ==
    {[str |-> <<"2", "0", "2", "5", "-", "0", "1", "-", "0", "1">>,
      valid |-> TRUE, instant |-> 0],
     [str |-> <<"2", "0", "2", "5", "-", "0", "1", "-", "0", "3">>,
      valid |-> TRUE, instant |-> 2 * DayMs],
     [str |-> <<"2", "0", "2", "5", "-", "0", "1", "-", "0", "1", "T", "0", "0", ":", "1", "0", "Z">>,
      valid |-> TRUE, instant |-> 10 * MinuteMs],
     [str |-> <<"2", "0", "2", "5", "-", "0", "1", "-", "0", "2", "T", "0", "1", ":", "0", "0", "Z">>,
      valid |-> TRUE, instant |-> DayMs + HourMs],
     [str |-> <<"0", "1", "/", "0", "2", "/", "2", "0", "2", "5">>,
      valid |-> TRUE, instant |-> DayMs],
     [str |-> <<"2", "0", "2", "5", "-", "1", "3", "-", "0", "1">>,
      valid |-> FALSE, instant |-> 0],
     [str |-> <<"T", "B", "D">>,
      valid |-> FALSE, instant |-> 0],
     [str |-> <<"n", "e", "x", "t", "-", "w", "e", "e", "k">>,
      valid |-> FALSE, instant |-> 0],
     [str |-> <<"a", "/", "b", "/", "c">>,
      valid |-> FALSE, instant |-> 0],
     [str |-> <<"0", "1", "/", "0", "2">>,
      valid |-> FALSE, instant |-> 0],
     [str |-> <<"0", "1", "/", "0", "2", "/", "2", "0", "2", "5", "/", "0", "3">>,
      valid |-> FALSE, instant |-> 0],
     [str |-> <<"J", "a", "n", " ", "2", " ", "2", "0", "2", "5">>,
      valid |-> FALSE, instant |-> 0]}

\* the instants of the model's clock: around each minute, hour and day boundary
Instants ==
    {n \in {d * DayMs + h * HourMs + m * MinuteMs + j :
                d \in 0..MaxDays, h \in {0, 1, 23}, m \in {0, 1, 10, 59}, j \in {-1, 0, 1}} :
        n >= 0}

InitCountdown ==
    /\ CtlIdle /\ TokIdle /\ CsvIdle
    /\ called = {}
    /\ deadlineStr \in {c.str : c \in DeadlineCases} \cup {<<>>, Undefined}
    /\ currentTime \in Instants
    /\ countdown = <<>>

GetCountdown ==
    /\ "getCountdown" \notin called
    /\ called' = called \cup {"getCountdown"}
    /\ countdown' = getCountdown(deadlineStr, currentTime)
    /\ UNCHANGED <<deadlineStr, currentTime, tokVars, csvVars, ctlVars>>

NextCountdown == GetCountdown

SpecCountdown == InitCountdown /\ [][NextCountdown]_vars

------------------------------------------------------------------------------
\* Reading the outputs back, for the properties

\* A standard CSV parse (RFC 4180, records ended by a line feed): the records
\* of the text, each the sequence of its fields; no record at all when the
\* text is malformed (a quote in an unquoted field, text after a closing
\* quote, a quoted field that is not closed).
RECURSIVE ParseCsvFrom(_, _, _, _, _, _)
ParseCsvFrom(t, i, st, field, row, rows) ==
    IF i > Len(t)
    THEN IF st = "quoted" THEN <<>> ELSE Append(rows, Append(row, field))
    ELSE LET c == t[i] IN
         CASE st = "quoted" ->
                IF c = "\"" THEN ParseCsvFrom(t, i + 1, "closing", field, row, rows)
                ELSE ParseCsvFrom(t, i + 1, "quoted", Append(field, c), row, rows)
           [] st = "closing" /\ c = "\"" ->
                ParseCsvFrom(t, i + 1, "quoted", Append(field, c), row, rows)
           [] st = "start" /\ c = "\"" ->
                ParseCsvFrom(t, i + 1, "quoted", <<>>, row, rows)
           [] st \in {"start", "bare", "closing"} /\ c = "," ->
                ParseCsvFrom(t, i + 1, "start", <<>>, Append(row, field), rows)
           [] st \in {"start", "bare", "closing"} /\ c = "\n" ->
                ParseCsvFrom(t, i + 1, "start", <<>>, <<>>, Append(rows, Append(row, field)))
           [] st \in {"start", "bare"} /\ c \notin {"\"", ",", "\n"} ->
                ParseCsvFrom(t, i + 1, "bare", Append(field, c), row, rows)
           [] OTHER -> <<>>

ParseCsv(t) == ParseCsvFrom(t, 1, "start", <<>>, <<>>, <<>>)

\* the number a decimal text with at most two decimals stands for, as a count
\* of hundredths
RECURSIVE ParseHundredthsFrom(_, _, _, _)
ParseHundredthsFrom(t, i, acc, decimals) ==
    IF i > Len(t)
    THEN IF decimals <= 0 THEN acc * 100 ELSE IF decimals = 1 THEN acc * 10 ELSE acc
    ELSE IF t[i] = "." THEN ParseHundredthsFrom(t, i + 1, acc, 0)
    ELSE ParseHundredthsFrom(t, i + 1, acc * 10 + DigitValue(t[i]),
                             IF decimals < 0 THEN decimals ELSE decimals + 1)

ParseHundredths(t) ==
    IF t # <<>> /\ Head(t) = "-" THEN -ParseHundredthsFrom(Tail(t), 1, 0, -1)
    ELSE ParseHundredthsFrom(t, 1, 0, -1)

------------------------------------------------------------------------------
\* Properties of the helpers

Exported == "exportToCSV" \in called
Formatted == "formatMatchScore" \in called

\* the text of an optional text
TextOf(t) == IF t = Undefined THEN <<>> ELSE t

\* the header line of the file, and the text after it
HeaderLine == Join(HeaderNames, <<",">>) \o <<"\n">>
HasHeader == Len(csvContent) > Len(HeaderLine)
                /\ SubSeq(csvContent, 1, Len(HeaderLine)) = HeaderLine
ExportedRows == ParseCsv(SubSeq(csvContent, Len(HeaderLine) + 1, Len(csvContent)))

\* C5: the title, the description and the requirements joined with "; " are
\* quoted in the exported row so that a standard CSV parse of the row yields
\* one record of as many columns as the header, with the original text in
\* the Title, the Description and the Requirements column.
C5_CsvRowRoundTrips ==
    Exported =>
        /\ HasHeader
        /\ Len(ExportedRows) = 1
        /\ Len(ExportedRows[1]) = Len(HeaderNames)
        /\ ExportedRows[1][1] = hackathon.title
        /\ ExportedRows[1][2] = TextOf(hackathon.description)
        /\ ExportedRows[1][13] = Join(hackathon.requirements.items, <<";", " ">>)

EmbeddingFields(h) ==
    <<h.embedding, h.description_embedding, h.embeddings, h.vector, h.text_embedding>>

\* the places, in the order of probing, that hold a non-empty array
NonEmptyArrays(h) ==
    {n \in 1..5 : EmbeddingFields(h)[n].kind = "array" /\ EmbeddingFields(h)[n].items # <<>>}

\* C6: the embedding selected is the first non-empty array among embedding,
\* description_embedding, embeddings, vector, text_embedding, and none (the
\* empty array) when no field holds one; the Embedding Available column is
\* "true" exactly when one of the five holds a non-empty array.
C6_FirstNonEmptyArraySelected ==
    Exported =>
        LET found == NonEmptyArrays(hackathon)
            first == CHOOSE n \in found : \A k \in found : n <= k
        IN  /\ embedding = IF found = {} THEN <<>>
                           ELSE EmbeddingFields(hackathon)[first].items
            /\ Len(ExportedRows) = 1
            /\ ExportedRows[1][6] = IF found = {} THEN FalseText ELSE TrueText

\* embeddings and vector both hold an array, no field before them does
C6_Witness ==
    /\ Exported
    /\ NonEmptyArrays(hackathon) = {3, 4}
    /\ hackathon.embeddings.items # hackathon.vector.items
    /\ hackathon.embedding.kind = "text"
    /\ embedding = hackathon.embeddings.items

\* the percentage the badge shows and the one exported, in hundredths
BadgePercent == ParseHundredths(SubSeq(matchBadge, 1, Len(matchBadge) - 1))
ColumnPercent == ParseHundredths(ExportedRows[1][7])

\* C8 (as claimed): the badge and the Match Score column never exceed 100, are
\* exactly 100 for a score of at least 1, and are negative for a negative score.
C8_CappedAboveNegativeBelow ==
    (Exported /\ Formatted) =>
        LET score == hackathon.match_score IN
        /\ BadgePercent <= 10000 /\ ColumnPercent <= 10000
        /\ score >= ScoreOne => BadgePercent = 10000 /\ ColumnPercent = 10000
        /\ score < 0 => BadgePercent < 0 /\ ColumnPercent < 0

\* C8 (amended): the badge and the Match Score column never exceed 100 and are
\* exactly 100 for a score of at least 1; a negative score is not clamped: it
\* gives score * 100 rounded to two decimals, which is negative unless it
\* rounds to zero, and then the badge is "0%" and the column 0.
C8_CappedAboveRoundedBelow ==
    (Exported /\ Formatted) =>
        LET score == hackathon.match_score IN
        /\ matchBadge = ExportedRows[1][7] \o <<"%">>
        /\ BadgePercent <= 10000 /\ ColumnPercent <= 10000
        /\ score >= ScoreOne => matchBadge = <<"1", "0", "0", "%">>
        /\ score < 0 =>
              /\ BadgePercent <= 0
              /\ Abs(10 * BadgePercent - score) <= 5
              /\ score <= -6 => BadgePercent < 0
              /\ score >= -4 => matchBadge = <<"0", "%">>

\* a score below -1 shown as a percentage below -100
C8_Witness ==
    /\ Exported /\ Formatted
    /\ hackathon.match_score < -ScoreOne
    /\ BadgePercent < -10000 /\ ColumnPercent < -10000

\* the punctuation the claim names: the class of line 147 and the curly quotes
ClaimedSplitChars == SplitChars \cup {"ldquo", "rdquo", "lsquo", "rsquo"}

\* the segments of t: the places where a character that is not split on starts
\* the text or follows one that is
SegmentStarts(t, sep) ==
    {i \in 1..Len(t) : t[i] \notin sep /\ (i = 1 \/ t[i - 1] \in sep)}

\* C9: estimateTokenCount(text) is the number of non-empty segments between the
\* runs of whitespace and of , . ; : ! ? ( ) [ ] { } and the straight and curly
\* quotes; an absent or empty text gives 0.
C9_TokenCountSplitsOnCurlyQuotes ==
    "estimateTokenCount" \in called =>
        tokenCount = IF text = Undefined THEN 0
                     ELSE Cardinality(SegmentStarts(text, ClaimedSplitChars))

------------------------------------------------------------------------------
\* Properties of the controller, checked under Spec

Returned == done.outcome = "returned"

\* C1: while a refresh started by handleRefresh is in flight the displayed list
\* is the list shown when it started; a refresh whose recommendations fetch
\* delivered a list leaves exactly that list, and a refresh whose
\* recommendations fetch failed leaves the list it started with and a non-empty
\* error message.
C1_RefreshKeepsThenSwapsList ==
    /\ \A i \in 1..Len(inflight) :
          inflight[i].kind = "refresh" => recommendations = inflight[i].list0
    /\ (Returned /\ done.kind = "refresh" /\ done.recsRes = "ok")
          => recommendations = done.data
    /\ (Returned /\ done.kind = "refresh" /\ done.recsRes = "fail")
          => recommendations = done.list0 /\ error # ""

\* a refresh of a non-empty list failed
C1_Witness ==
    /\ Returned /\ done.kind = "refresh" /\ done.recsRes = "fail"
    /\ done.list0 # <<>>

\* C2 (as claimed): a failure of either fetch of a cycle, the profile's or the
\* list's, leaves a non-empty error message.
C2_AnyFetchFailureSetsError ==
    (Returned /\ (done.userRes = "fail" \/ done.recsRes = "fail")) => error # ""

\* C2 (amended): a failure of the recommendations fetch leaves a non-empty error
\* message; a failure of the profile fetch alone is swallowed: the cycle goes
\* on, and it ends with the error message and the profile it started with.
C2_RecsFailureSetsError ==
    /\ (Returned /\ done.recsRes = "fail") => error # ""
    /\ (Returned /\ done.userRes = "fail" /\ done.recsRes = "ok")
          => /\ error = done.err0
             /\ inflight = <<>> => user = done.user0

\* an initial load whose two fetches both failed
C2_Witness ==
    /\ Returned /\ done.kind = "load"
    /\ done.userRes = "fail" /\ done.recsRes = "fail"

\* C3: a refresh started with an error message set, whose two fetches succeed,
\* leaves the fetched list and no error message.
C3_RefreshClearsError ==
    (/\ Returned /\ done.kind = "refresh" /\ done.err0 # ""
     /\ done.userRes = "ok" /\ done.recsRes = "ok")
        => recommendations = done.data /\ error = ""

\* C4: without a stored userId the mount effect and handleRefresh redirect to
\* the login step: no fetch is issued, and the error message, the list and the
\* profile stay as they were; a call that goes on to fetch has a userId.
C4_MissingIdRedirects ==
    /\ \A i \in 1..Len(inflight) : ~Falsy(inflight[i].uid)
    /\ mounted => (inflight # <<>> \/ done.kind # "none")
    /\ done.outcome = "redirect" =>
          /\ route = LoginRoute
          /\ done.fetches = 0
          /\ error = done.err0
          /\ recommendations = done.list0
          /\ user = done.user0
          /\ inflight = <<>>

\* handleRefresh redirected while a list was displayed
C4_Witness ==
    /\ done.outcome = "redirect" /\ done.kind = "refresh"
    /\ done.list0 # <<>>

LoadedEmpty == mounted /\ route = PageRoute /\ ~loading /\ recommendations = <<>>

\* C10 (as claimed): whenever the load has completed and the list is empty the
\* page shows the "no recommendations" affordance.
C10_EmptyListShowsAffordance == LoadedEmpty => EmptyStateShown

\* C10 (amended): whenever the load has completed and the list is empty, the
\* page shows the "no recommendations" affordance exactly when no error message
\* is set; with an error message set it shows the error banner instead.
C10_EmptyListShowsAffordanceOrError ==
    LoadedEmpty => /\ EmptyStateShown <=> error = ""
                   /\ ErrorBannerShown <=> error # ""

\* a load that delivered an empty list without an error
C10_Witness == LoadedEmpty /\ Returned /\ done.recsRes = "ok" /\ error = ""

------------------------------------------------------------------------------
\* getCountdown

Counted == "getCountdown" \in called

\* the deadline text is one that the code's formats make a valid date of
Parseable == \E c \in DeadlineCases : c.str = deadlineStr /\ c.valid

\* deadline - now for a parseable deadline
TimeLeft == (CHOOSE c \in DeadlineCases : c.str = deadlineStr).instant - currentTime

Phrase(n, singular, plural) ==
    Digits(n) \o <<" ">> \o (IF n = 1 THEN singular ELSE plural) \o <<" ", "l", "e", "f", "t">>

\* what the countdown of a parseable deadline is to read
ClaimedCountdown ==
    IF TimeLeft <= 0 THEN <<"D", "e", "a", "d", "l", "i", "n", "e", " ", "p", "a", "s", "s", "e", "d">>
    ELSE IF TimeLeft >= DayMs
         THEN Phrase(TimeLeft \div DayMs, <<"d", "a", "y">>, <<"d", "a", "y", "s">>)
    ELSE IF TimeLeft >= HourMs
         THEN Phrase(TimeLeft \div HourMs, <<"h", "o", "u", "r">>, <<"h", "o", "u", "r", "s">>)
    ELSE Phrase(TimeLeft \div MinuteMs, <<"m", "i", "n", "u", "t", "e">>, <<"m", "i", "n", "u", "t", "e", "s">>)

\* C7 as stated: for a parseable deadline the countdown is 'Deadline passed'
\* when deadline - now <= 0 and otherwise names the largest unit of which a
\* whole one remains, singular exactly for 1; for every deadline string that
\* does not parse, the empty string included, the result is the string itself.
C7_UnparseableReturnedUnchanged ==
    (Counted /\ deadlineStr # Undefined) =>
        IF Parseable THEN countdown = ClaimedCountdown
        ELSE countdown = deadlineStr

\* C7, amended: for a parseable deadline the countdown is 'Deadline passed'
\* when deadline - now <= 0 and otherwise names the largest unit of which a
\* whole one remains, singular exactly for 1; for a non-empty deadline string
\* that does not parse the result is the string itself; for an empty or absent
\* deadline the result is 'No deadline specified'.
C7_CountdownOrOriginalOrNoDeadline ==
    Counted =>
        IF deadlineStr \in {<<>>, Undefined}
        THEN countdown = <<"N", "o", " ", "d", "e", "a", "d", "l", "i", "n", "e", " ", "s", "p", "e", "c", "i", "f", "i", "e", "d">>
        ELSE IF Parseable THEN countdown = ClaimedCountdown
        ELSE countdown = deadlineStr

\* one whole day and less than two remain, and the countdown is singular
C7_Witness ==
    /\ Counted /\ Parseable
    /\ TimeLeft >= DayMs /\ TimeLeft < 2 * DayMs
    /\ countdown = <<"1", " ", "d", "a", "y", " ", "l", "e", "f", "t">>

------------------------------------------------------------------------------
\* exportToCSV on the session

\* C11: a call of exportToCSV while the recommendation list is empty triggers
\* no download and leaves the list, the profile, the loading and refreshing
\* flags, the error message and the selection as they were.
C11_ExportOfEmptyListIsNoOp ==
    [][("exportToCSV" \in called' /\ "exportToCSV" \notin called
            /\ Len(recommendations) = 0)
          => UNCHANGED <<downloads, csvContent, recommendations, user, loading,
                         isRefreshing, error, selectedHackathon, showMetrics>>]_vars

\* exportToCSV has been called on an empty list
C11_Witness ==
    "exportToCSV" \in called /\ Len(recommendations) = 0 /\ downloads = 0

------------------------------------------------------------------------------
\* the minute timer

\* C12: a tick of the timer changes the current time only: it starts no fetch
\* and leaves the list, the profile, the loading and refreshing flags, the
\* error message and the selected record as they were, a fetch in flight or not.
C12_TickOnlyUpdatesClock ==
    [][currentTime' # currentTime
          => UNCHANGED <<inflight, recommendations, user, loading, isRefreshing,
                         error, selectedHackathon>>]_vars

\* the timer has ticked while the initial load is in flight: the load starts
\* with the mount, and the timer runs only once the page is mounted
C12_Witness ==
    /\ currentTime > 0
    /\ Len(inflight) = 1 /\ inflight[1].kind = "load"
    /\ loading

------------------------------------------------------------------------------
\* one cycle at a time

\* C14: at most one load or refresh cycle is in flight. While the initial load
\* is in flight the page shows only the spinner, while a refresh is in flight
\* the load is over and the refresh button is disabled, so no second cycle can
\* be started; and the list is still the one the cycle in flight started with:
\* no other cycle has written it in between.
C14_OneCycleInFlight ==
    /\ Len(inflight) <= 1
    /\ \A i \in 1..Len(inflight) :
          /\ ~RefreshButtonEnabled
          /\ inflight[i].kind = "load" => SpinnerOnly
          /\ inflight[i].kind = "refresh" => ~loading /\ isRefreshing
          /\ recommendations = inflight[i].list0

\* a refresh is in flight on the rendered page, its button disabled
C14_Witness ==
    /\ Len(inflight) = 1 /\ inflight[1].kind = "refresh"
    /\ PageRendered /\ ~RefreshButtonEnabled

------------------------------------------------------------------------------
\* the cycles end, checked under SpecLive

\* C13: when every fetch issued settles, an initial load in flight leads to
\* loading = false and a refresh leads to isRefreshing = false, whether its
\* fetches succeed or fail.
C13_CyclesEnd ==
    /\ (\E i \in 1..Len(inflight) : inflight[i].kind = "load") ~> ~loading
    /\ isRefreshing ~> ~isRefreshing

\* an initial load whose recommendations fetch failed is over
C13_Witness ==
    /\ Returned /\ done.kind = "load" /\ done.recsRes = "fail"
    /\ ~loading /\ inflight = <<>>

====
